---- MODULE Spec2Model ----
(***************************************************************************)
(* DatabasePostgreSQLReplica<Base>: a catalog facade over an underlying    *)
(* catalog (Base = DatabaseOrdinary or DatabaseAtomic) that owns a table   *)
(* registry (`tables`) and drives a PostgreSQLReplicationHandler           *)
(* (`replication_handler`).                                                *)
(*                                                                         *)
(* One facade caller executes loadStoredObjects and drop step by step      *)
(* (pc); the other facade calls are single steps taken while no load or    *)
(* drop is in progress.  The replication handler's background work runs    *)
(* as its own thread and interleaves with everything.                      *)
(***************************************************************************)
EXTENDS Integers, Sequences, FiniteSets, TLC

\* ---------------------------------------------------------------- bounds
Names == {"orders", "customers"}
Engines == {"ReplacingMergeTree", "Memory"}
Variants == {"Ordinary", "Atomic"}
CatalogName == "pg"
MaxLoads == 2

\* ------------------------------------------------------------- variables
VARIABLES
    variant,              \* which constructor specialisation built the facade
    base_tables,          \* Base: table name -> engine kind, or NoTable
    base_dropped,         \* Base::drop has run
    tables,               \* the facade's registry: name -> handle generation, 0 = absent
    handles,              \* StoragePostgreSQLReplica objects: name -> generation -> state
    replication_handler,  \* [state, storages]; state "None" = null pointer
    metadata_exists,      \* Poco::File(metadata path + METADATA_SUFFIX).exists()
    pc,                   \* position of the facade caller inside loadStoredObjects / drop
    tables_to_replicate,  \* startSynchronization's local set, {} outside the call
    visited,              \* the names its loop has been through
    loads,                \* number of loadStoredObjects calls begun
    drop_trace,           \* steps performed by the drop in progress (or the last one)
    drop_had_handler,     \* replication_handler was non-null when that drop began
    last,                 \* the facade call that has just returned
    alive,                \* FALSE once the process has crashed
    inserting,            \* the name `tables[table_name] = storage` is writing, "" if none
    reader                \* what a second thread's lookup has just observed

vars == <<variant, base_tables, base_dropped, tables, handles, replication_handler,
          metadata_exists, pc, tables_to_replicate, visited, loads, drop_trace,
          drop_had_handler, last, alive, inserting, reader>>

\* ------------------------------------------------------- values and types
NoTable == "none"
HandleStates == {"None", "Pending", "Loaded"}
CoordStates == {"None", "NotStarted", "Running", "Stopping", "Stopped"}

NullStorage == [type |-> "null", database |-> "", table |-> "", gen |-> 0]

global_context ==
    [hasQueryContext |-> FALSE, storages |-> {}, origin |-> "facade", scalars |-> {}]

\* contexts of facade callers; `scalars` is the context's special scalars, a
\* set of <<name, value>> pairs with one value per name
Contexts ==
    {c \in [hasQueryContext : BOOLEAN, storages : SUBSET Engines,
            origin : {"coordinator", "user"}, scalars : {{}}] :
        /\ (~c.hasQueryContext => c.storages = {})
        /\ (c.origin = "coordinator" =>
                c.hasQueryContext /\ "ReplacingMergeTree" \in c.storages)}

NoCall == [op |-> "none", name |-> "", ctx |-> global_context, kind |-> "",
           outcome |-> "", result |-> NullStorage, snapshot |-> {}]

NoRead == [op |-> "none", name |-> "", outcome |-> "", result |-> NullStorage,
           snapshot |-> {}, raced |-> FALSE]

NoHandler == [state |-> "None", storages |-> [n \in Names |-> 0]]

\* ------------------------------------------------------------ constructors
database_name == IF variant = "Ordinary" THEN CatalogName ELSE ""

log_initialized == variant = "Ordinary"

\* LOG_*(log, ...) dereferences `log`
LogOutcomes == IF log_initialized THEN {"ok"} ELSE {"ok", "crash"}

Init ==
    /\ variant \in Variants
    /\ base_tables = [n \in Names |-> NoTable]
    /\ base_dropped = FALSE
    /\ tables = [n \in Names |-> 0]
    /\ handles = [n \in Names |-> [g \in 1..MaxLoads |-> "None"]]
    /\ replication_handler = NoHandler
    /\ metadata_exists \in BOOLEAN
    /\ pc = "idle"
    /\ tables_to_replicate = {}
    /\ visited = {}
    /\ loads = 0
    /\ drop_trace = <<>>
    /\ drop_had_handler = FALSE
    /\ last = NoCall
    /\ alive = TRUE
    /\ inserting = ""
    /\ reader = NoRead


\* ------------------------------------------------ the underlying catalog
\* Base::tryGetTable
BaseTryGetTable(name) ==
    IF base_tables[name] = NoTable
        THEN NullStorage
        ELSE [type |-> base_tables[name], database |-> CatalogName,
              table |-> name, gen |-> 0]

\* Base::createTable: TABLE_ALREADY_EXISTS when the name is taken
BaseCreateTable(name, kind) ==
    IF base_tables[name] # NoTable
        THEN [base |-> base_tables, outcome |-> "fault"]
        ELSE [base |-> [base_tables EXCEPT ![name] = kind], outcome |-> "ok"]

\* Base::dropTable: UNKNOWN_TABLE when the name is not there
BaseDropTable(name) ==
    IF base_tables[name] = NoTable
        THEN [base |-> base_tables, outcome |-> "fault"]
        ELSE [base |-> [base_tables EXCEPT ![name] = NoTable], outcome |-> "ok"]

\* Base::loadStoredObjects: the persisted definitions `hydrated` become tables
BaseLoadStoredObjects(hydrated) ==
    [n \in Names |->
        IF n \in hydrated /\ base_tables[n] = NoTable
            THEN "ReplacingMergeTree" ELSE base_tables[n]]

\* ------------------------------------------------------ the table handle
\* StoragePostgreSQLReplica::create(StorageID(database_name, name), StoragePtr{}, ...)
Handle(name, g) ==
    [type |-> "StoragePostgreSQLReplica", database |-> database_name,
     table |-> name, gen |-> g]

isNestedLoaded(name, g) == handles[name][g] = "Loaded"

tryGetNested(name, g) == IF handles[name][g] = "Loaded" THEN "nested" ELSE "absent"

\* ------------------------------------------------ the replication handler
CoordShutdown(s) == IF s \in {"NotStarted", "Running"} THEN "Stopping" ELSE s

CoordShutdownFinal(s) == "Stopped"

CoordStartup(s) == IF s = "NotStarted" THEN "Running" ELSE s

CoordBackgroundActive == replication_handler.state \in {"Running", "Stopping"}

\* ------------------------------------------------- the query interpreter
ShardNums == {0, 1}
ShardCounts == {1, 2}

\* std::optional<T>: empty, or holding one value
Optional(T) == {{}} \cup {{v} : v \in T}

\* SelectQueryOptions: the two optional UInt32 members the constructor reads
SelectQueryOptions == [shard_num : Optional(ShardNums), shard_count : Optional(ShardCounts)]

\* special scalars a context may already carry when the interpreter receives it
IncomingScalars == SUBSET {<<"_shard_num", 0>>, <<"_query_id", 1>>}

\* Context::addSpecialScalar(name, block): the scalar of that name becomes block
addSpecialScalar(context, name, value) ==
    [context EXCEPT !.scalars = {p \in @ : p[1] # name} \cup {<<name, value>>}]

\* the constructor body: `if (options.shard_num) context->addSpecialScalar(...)`,
\* then the same for shard_count; an optional holding 0 is set
IInterpreterUnionOrSelectQuery(context_, options_) ==
    LET with_num ==
            IF options_.shard_num # {}
                THEN addSpecialScalar(context_, "_shard_num",
                                      CHOOSE v \in options_.shard_num : TRUE)
                ELSE context_
    IN  IF options_.shard_count # {}
            THEN addSpecialScalar(with_num, "_shard_count",
                                  CHOOSE v \in options_.shard_count : TRUE)
            ELSE with_num

\* ------------------------------------------------------------- the facade
\* variant of tryGetTable that refuses a context carrying special scalars
tryGetTable_rejectsShardContext(name, ctx) ==
    IF ctx.scalars # {}
        THEN NullStorage
        ELSE IF ctx.hasQueryContext /\ "ReplacingMergeTree" \in ctx.storages
            THEN BaseTryGetTable(name)
            ELSE IF tables[name] # 0 /\ isNestedLoaded(name, tables[name])
                THEN Handle(name, tables[name])
                ELSE NullStorage

\* variant of tryGetTable that returns a registered handle whatever its load state
tryGetTable_ignoresLoadState(name, ctx) ==
    IF ctx.hasQueryContext /\ "ReplacingMergeTree" \in ctx.storages
        THEN BaseTryGetTable(name)
        ELSE IF tables[name] # 0 THEN Handle(name, tables[name]) ELSE NullStorage

\* variant of tryGetTable that filters every caller through the registry
tryGetTable_alwaysFiltered(name, ctx) ==
    IF tables[name] # 0 /\ isNestedLoaded(name, tables[name])
        THEN Handle(name, tables[name])
        ELSE NullStorage

tryGetTable(name, ctx) ==
    IF ctx.hasQueryContext /\ "ReplacingMergeTree" \in ctx.storages
        THEN BaseTryGetTable(name)
        ELSE IF tables[name] # 0 /\ isNestedLoaded(name, tables[name])
                THEN Handle(name, tables[name])
                ELSE NullStorage

\* variant of getStorage that returns what the lookup found and creates nothing
getStorage_doesNotCreate(name) == tryGetTable(name, global_context)

\* getStorage: the handle tryGetTable finds under global_context, else a new one
getStorage(name) ==
    LET storage == tryGetTable(name, global_context) IN
    IF storage # NullStorage THEN storage ELSE Handle(name, loads)

\* variant of createTable that swallows the fault of Base::createTable
createTable_swallowsFault(ctx, name, kind) ==
    IF ctx.hasQueryContext /\ "ReplacingMergeTree" \in ctx.storages
        THEN [base |-> BaseCreateTable(name, kind).base, outcomes |-> {"ok"}]
        ELSE [base |-> base_tables, outcomes |-> LogOutcomes]

createTable(ctx, name, kind) ==
    IF ctx.hasQueryContext /\ "ReplacingMergeTree" \in ctx.storages
        THEN LET r == BaseCreateTable(name, kind) IN
             [base |-> r.base, outcomes |-> {r.outcome}]
        ELSE [base |-> base_tables, outcomes |-> LogOutcomes]

dropTable(name) == BaseDropTable(name)

\* variant of shutdown that also joins the replication handler
shutdown_joins(rh) ==
    IF rh.state # "None"
        THEN [rh EXCEPT !.state = CoordShutdownFinal(CoordShutdown(@))]
        ELSE rh

\* shutdown: `if (replication_handler) replication_handler->shutdown();`
shutdown(rh) ==
    IF rh.state # "None" THEN [rh EXCEPT !.state = CoordShutdown(@)] ELSE rh

RECURSIVE NestedTables(_)
NestedTables(todo) ==
    IF todo = {} THEN {}
    ELSE LET table_name == CHOOSE n \in todo : TRUE
             rest == NestedTables(todo \ {table_name})
         IN  IF tryGetNested(table_name, tables[table_name]) # "absent"
                THEN rest \cup {table_name} ELSE rest

\* variant of getTablesIterator that lists every registered name
getTablesIterator_listsPending == {n \in Names : tables[n] # 0}

getTablesIterator == NestedTables({n \in Names : tables[n] # 0})

\* variant of DropEntry that never stops the replication handler
DropEntry_skipsShutdown(rh) == "drop_metadata"

\* drop: where it goes after testing `if (replication_handler)`
DropEntry(rh) == IF rh.state # "None" THEN "drop_shutdown" ELSE "drop_metadata"

\* variant of RemoveMetadata that swallows a failed removal
RemoveMetadata_swallowsFault(exists, remove_ok) ==
    IF exists
        THEN [exists |-> ~remove_ok, fault |-> FALSE,
              steps |-> <<"metadata.exists=true", "metadata.remove">>]
        ELSE [exists |-> FALSE, fault |-> FALSE, steps |-> <<"metadata.exists=false">>]

\* drop: `if (metadata.exists()) metadata.remove(false);`
RemoveMetadata(exists, remove_ok) ==
    IF exists
        THEN IF remove_ok
                THEN [exists |-> FALSE, fault |-> FALSE,
                      steps |-> <<"metadata.exists=true", "metadata.remove">>]
                ELSE [exists |-> TRUE, fault |-> TRUE,
                      steps |-> <<"metadata.exists=true", "metadata.remove">>]
        ELSE [exists |-> FALSE, fault |-> FALSE, steps |-> <<"metadata.exists=false">>]


\* -------------------------------------------------------------- the calls
Call(op, name, ctx, kind, outcome, result, snapshot) ==
    [op |-> op, name |-> name, ctx |-> ctx, kind |-> kind, outcome |-> outcome,
     result |-> result, snapshot |-> snapshot]

\* the facade caller may begin a call while the catalog is attached and its
\* previous call has returned
Callable == alive /\ pc = "idle" /\ ~base_dropped /\ last = NoCall

\* a call from the replication handler's own thread needs that thread
CallerExists(ctx) == ctx.origin = "coordinator" => CoordBackgroundActive

TryGetTable ==
    /\ Callable
    /\ \E name \in Names, ctx \in Contexts :
        /\ CallerExists(ctx)
        /\ last' = Call("tryGetTable", name, ctx, "", "ok", tryGetTable(name, ctx), {})
    /\ UNCHANGED <<variant, inserting, reader, base_tables, base_dropped, tables, handles,
                   replication_handler, metadata_exists, pc, tables_to_replicate,
                   visited, loads, drop_trace, drop_had_handler, alive>>

CreateTable ==
    /\ Callable
    /\ \E name \in Names, ctx \in Contexts, kind \in Engines :
        /\ CallerExists(ctx)
        /\ LET r == createTable(ctx, name, kind) IN
           \E outcome \in r.outcomes :
              /\ base_tables' = r.base
              /\ alive' = (outcome # "crash")
              /\ last' = Call("createTable", name, ctx, kind, outcome, NullStorage, {})
    /\ UNCHANGED <<variant, inserting, reader, base_dropped, tables, handles, replication_handler,
                   metadata_exists, pc, tables_to_replicate, visited, loads,
                   drop_trace, drop_had_handler>>

DropTable ==
    /\ Callable
    /\ \E name \in Names, ctx \in Contexts :
        /\ CallerExists(ctx)
        /\ LET r == dropTable(name) IN
              /\ base_tables' = r.base
              /\ last' = Call("dropTable", name, ctx, "", r.outcome, NullStorage, {})
    /\ UNCHANGED <<variant, inserting, reader, base_dropped, tables, handles, replication_handler,
                   metadata_exists, pc, tables_to_replicate, visited, loads,
                   drop_trace, drop_had_handler, alive>>

Shutdown ==
    /\ Callable
    /\ replication_handler' = shutdown(replication_handler)
    /\ last' = Call("shutdown", "", global_context, "", "ok", NullStorage, {})
    /\ UNCHANGED <<variant, inserting, reader, base_tables, base_dropped, tables, handles,
                   metadata_exists, pc, tables_to_replicate, visited, loads,
                   drop_trace, drop_had_handler, alive>>

GetTablesIterator ==
    /\ Callable
    /\ last' = Call("getTablesIterator", "", global_context, "", "ok", NullStorage,
                    getTablesIterator)
    /\ UNCHANGED <<variant, inserting, reader, base_tables, base_dropped, tables, handles,
                   replication_handler, metadata_exists, pc, tables_to_replicate,
                   visited, loads, drop_trace, drop_had_handler, alive>>

\* a SELECT of a user query: the interpreter is constructed over the query's
\* context (which it copies or receives mutable), then the table is resolved
\* and the catalog enumerated under the interpreter's context
InterpretSelect ==
    /\ Callable
    /\ \E name \in Names, ctx \in Contexts, incoming \in IncomingScalars,
          options \in SelectQueryOptions :
        LET context_ == [ctx EXCEPT !.scalars = incoming]
            context == IInterpreterUnionOrSelectQuery(context_, options)
        IN  /\ ctx.origin = "user"
            /\ last' = [op |-> "select", name |-> name, ctx |-> context, kind |-> "",
                        outcome |-> "ok", result |-> tryGetTable(name, context),
                        snapshot |-> getTablesIterator, options |-> options,
                        incoming |-> context_]
    /\ UNCHANGED <<variant, inserting, reader, base_tables, base_dropped, tables, handles,
                   replication_handler, metadata_exists, pc, tables_to_replicate,
                   visited, loads, drop_trace, drop_had_handler, alive>>

\* ------------------------------------------------------ loadStoredObjects
Running(op) == Call(op, "", global_context, "", "running", NullStorage, {})

Returned(op, outcome) == Call(op, "", global_context, "", outcome, NullStorage, {})

\* Base::loadStoredObjects(...), which may throw
LoadStoredObjects ==
    /\ Callable
    /\ loads < MaxLoads
    /\ loads' = loads + 1
    /\ \/ /\ \E hydrated \in SUBSET Names :
                base_tables' = BaseLoadStoredObjects(hydrated)
          /\ pc' = "sync_construct"
          /\ last' = Running("loadStoredObjects")
       \/ /\ UNCHANGED <<base_tables, pc>>
          /\ last' = Returned("loadStoredObjects", "fault")
    /\ UNCHANGED <<variant, inserting, reader, base_dropped, tables, handles, replication_handler,
                   metadata_exists, tables_to_replicate, visited, drop_trace,
                   drop_had_handler, alive>>

\* replication_handler = std::make_unique<PostgreSQLReplicationHandler>(...)
SyncConstruct ==
    /\ alive /\ pc = "sync_construct"
    /\ \/ /\ replication_handler' = [state |-> "NotStarted",
                                    storages |-> [n \in Names |-> 0]]
          /\ pc' = "sync_fetch"
          /\ UNCHANGED last
       \/ /\ UNCHANGED replication_handler
          /\ pc' = "idle"
          /\ last' = Returned("loadStoredObjects", "fault")
    /\ UNCHANGED <<variant, inserting, reader, base_tables, base_dropped, tables, handles,
                   metadata_exists, tables_to_replicate, visited, loads,
                   drop_trace, drop_had_handler, alive>>

\* variant of the discovery step that catches the fault and returns normally
SyncFetch_swallowsFault ==
    /\ alive /\ pc = "sync_fetch"
    /\ \/ /\ \E req \in SUBSET Names :
                /\ tables_to_replicate' = req
                /\ visited' = {}
          /\ pc' = "sync_loop"
          /\ UNCHANGED last
       \/ /\ UNCHANGED <<tables_to_replicate, visited>>
          /\ pc' = "idle"
          /\ last' = Returned("loadStoredObjects", "ok")
    /\ UNCHANGED <<variant, inserting, reader, base_tables, base_dropped, tables, handles,
                   replication_handler, metadata_exists, loads, drop_trace,
                   drop_had_handler, alive>>

\* tables_to_replicate = replication_handler->fetchRequiredTables(connection->conn())
SyncFetch ==
    /\ alive /\ pc = "sync_fetch"
    /\ \/ /\ \E req \in SUBSET Names :
                /\ tables_to_replicate' = req
                /\ visited' = {}
          /\ pc' = "sync_loop"
          /\ UNCHANGED last
       \/ /\ UNCHANGED <<tables_to_replicate, visited>>
          /\ pc' = "idle"
          /\ last' = Returned("loadStoredObjects", "fault")
    /\ UNCHANGED <<variant, inserting, reader, base_tables, base_dropped, tables, handles,
                   replication_handler, metadata_exists, loads, drop_trace,
                   drop_had_handler, alive>>

\* `tables[table_name] = storage` on the handle objects of one name: a handle
\* made by StoragePostgreSQLReplica::create starts Pending, and the handle the
\* registry held before, when it is another one, loses its last owner
AssignHandle(objects, old, new) ==
    [g \in DOMAIN objects |->
        IF g = new THEN (IF objects[g] = "None" THEN "Pending" ELSE objects[g])
        ELSE IF g = old THEN "None"
        ELSE objects[g]]

\* one iteration of `for (const auto & table_name : tables_to_replicate)`
SyncAddTable ==
    /\ alive /\ pc = "sync_loop"
    /\ \E table_name \in tables_to_replicate \ visited :
        LET storage == getStorage(table_name) IN
        /\ IF storage # NullStorage
              THEN /\ handles' =
                        [handles EXCEPT ![table_name] =
                            AssignHandle(@, tables[table_name], storage.gen)]
                   /\ replication_handler' =
                        [replication_handler EXCEPT !.storages[table_name] = storage.gen]
                   /\ tables' = [tables EXCEPT ![table_name] = storage.gen]
              ELSE UNCHANGED <<handles, replication_handler, tables>>
        /\ visited' = visited \cup {table_name}
    /\ UNCHANGED <<variant, inserting, reader, base_tables, base_dropped, metadata_exists, pc,
                   tables_to_replicate, loads, drop_trace, drop_had_handler, last,
                   alive>>

\* variant of the last step that returns only when every registered table is loaded
SyncStartup_waitsForTables ==
    /\ alive /\ pc = "sync_loop" /\ visited = tables_to_replicate
    /\ \A n \in Names : tables[n] # 0 => handles[n][tables[n]] = "Loaded"
    /\ \E logged \in LogOutcomes :
        IF logged = "crash"
           THEN /\ alive' = FALSE
                /\ last' = Returned("loadStoredObjects", "crash")
                /\ UNCHANGED <<replication_handler, pc, tables_to_replicate, visited>>
           ELSE /\ UNCHANGED alive
                /\ pc' = "idle"
                /\ tables_to_replicate' = {}
                /\ visited' = {}
                /\ \/ /\ replication_handler' =
                           [replication_handler EXCEPT !.state = CoordStartup(@)]
                      /\ last' = Returned("loadStoredObjects", "ok")
                   \/ /\ UNCHANGED replication_handler
                      /\ last' = Returned("loadStoredObjects", "fault")
    /\ UNCHANGED <<variant, inserting, reader, base_tables, base_dropped, tables, handles,
                   metadata_exists, loads, drop_trace, drop_had_handler>>

\* LOG_TRACE(log, ...); replication_handler->startup();
SyncStartup ==
    /\ alive /\ pc = "sync_loop" /\ visited = tables_to_replicate
    /\ \E logged \in LogOutcomes :
        IF logged = "crash"
           THEN /\ alive' = FALSE
                /\ last' = Returned("loadStoredObjects", "crash")
                /\ UNCHANGED <<replication_handler, pc, tables_to_replicate, visited>>
           ELSE /\ UNCHANGED alive
                /\ pc' = "idle"
                /\ tables_to_replicate' = {}
                /\ visited' = {}
                /\ \/ /\ replication_handler' =
                           [replication_handler EXCEPT !.state = CoordStartup(@)]
                      /\ last' = Returned("loadStoredObjects", "ok")
                   \/ /\ UNCHANGED replication_handler
                      /\ last' = Returned("loadStoredObjects", "fault")
    /\ UNCHANGED <<variant, inserting, reader, base_tables, base_dropped, tables, handles,
                   metadata_exists, loads, drop_trace, drop_had_handler>>

\* ------------------------------------------------------------------- drop
\* `if (replication_handler)`
Drop ==
    /\ Callable
    /\ pc' = DropEntry(replication_handler)
    /\ drop_had_handler' = (replication_handler.state # "None")
    /\ drop_trace' = <<>>
    /\ last' = Running("drop")
    /\ UNCHANGED <<variant, inserting, reader, base_tables, base_dropped, tables, handles,
                   replication_handler, metadata_exists, tables_to_replicate,
                   visited, loads, alive>>

\* replication_handler->shutdown();
DropShutdown ==
    /\ alive /\ pc = "drop_shutdown"
    /\ replication_handler' = [replication_handler EXCEPT !.state = CoordShutdown(@)]
    /\ drop_trace' = Append(drop_trace, "shutdown")
    /\ pc' = "drop_final"
    /\ UNCHANGED <<variant, inserting, reader, base_tables, base_dropped, tables, handles,
                   metadata_exists, tables_to_replicate, visited, loads,
                   drop_had_handler, last, alive>>

\* variant of drop that goes on to the metadata file without shutdownFinal()
DropShutdownFinal_skipped ==
    /\ alive /\ pc = "drop_final"
    /\ pc' = "drop_metadata"
    /\ UNCHANGED <<variant, inserting, reader, base_tables, base_dropped, tables, handles,
                   replication_handler, metadata_exists, tables_to_replicate,
                   visited, loads, drop_trace, drop_had_handler, last, alive>>

\* replication_handler->shutdownFinal();
DropShutdownFinal ==
    /\ alive /\ pc = "drop_final"
    /\ replication_handler' =
          [replication_handler EXCEPT !.state = CoordShutdownFinal(@)]
    /\ drop_trace' = Append(drop_trace, "shutdownFinal")
    /\ pc' = "drop_metadata"
    /\ UNCHANGED <<variant, inserting, reader, base_tables, base_dropped, tables, handles,
                   metadata_exists, tables_to_replicate, visited, loads,
                   drop_had_handler, last, alive>>

\* Poco::File metadata(...); if (metadata.exists()) metadata.remove(false);
DropMetadata ==
    /\ alive /\ pc = "drop_metadata"
    /\ \E remove_ok \in BOOLEAN :
        LET r == RemoveMetadata(metadata_exists, remove_ok) IN
        /\ metadata_exists' = r.exists
        /\ drop_trace' = drop_trace \o r.steps
        /\ IF r.fault
              THEN pc' = "idle" /\ last' = Returned("drop", "fault")
              ELSE pc' = "drop_base" /\ last' = Running("drop")
    /\ UNCHANGED <<variant, inserting, reader, base_tables, base_dropped, tables, handles,
                   replication_handler, tables_to_replicate, visited, loads,
                   drop_had_handler, alive>>

\* Base::drop(context);
DropBase ==
    /\ alive /\ pc = "drop_base"
    /\ base_dropped' = TRUE
    /\ drop_trace' = Append(drop_trace, "Base::drop")
    /\ pc' = "idle"
    /\ last' = Returned("drop", "ok")
    /\ UNCHANGED <<variant, inserting, reader, base_tables, tables, handles, replication_handler,
                   metadata_exists, tables_to_replicate, visited, loads,
                   drop_had_handler, alive>>

\* ------------------------------- the replication handler's background work
\* a registered handle's initial snapshot completes: Pending -> Loaded
CoordLoadTable ==
    /\ alive /\ CoordBackgroundActive
    /\ \E n \in Names :
        LET g == replication_handler.storages[n] IN
        /\ g # 0
        /\ handles[n][g] = "Pending"
        /\ handles' = [handles EXCEPT ![n][g] = "Loaded"]
    /\ UNCHANGED <<variant, inserting, reader, base_tables, base_dropped, tables, replication_handler,
                   metadata_exists, pc, tables_to_replicate, visited, loads,
                   drop_trace, drop_had_handler, last, alive>>

\* the handler persists its replication state in the metadata file
CoordWriteMetadata ==
    /\ alive /\ CoordBackgroundActive
    /\ ~metadata_exists
    /\ metadata_exists' = TRUE
    /\ UNCHANGED <<variant, inserting, reader, base_tables, base_dropped, tables, handles,
                   replication_handler, pc, tables_to_replicate, visited, loads,
                   drop_trace, drop_had_handler, last, alive>>

\* the call returns to its caller, which takes the result
Return ==
    /\ alive /\ pc = "idle" /\ last # NoCall
    /\ last' = NoCall
    /\ UNCHANGED <<variant, inserting, reader, base_tables, base_dropped, tables, handles,
                   replication_handler, metadata_exists, pc, tables_to_replicate,
                   visited, loads, drop_trace, drop_had_handler, alive>>

\* ---------------------------------------------------------- specification
Next ==
    \/ LoadStoredObjects
    \/ SyncConstruct
    \/ SyncFetch
    \/ SyncAddTable
    \/ SyncStartup
    \/ TryGetTable
    \/ CreateTable
    \/ DropTable
    \/ Shutdown
    \/ GetTablesIterator
    \/ Drop
    \/ DropShutdown
    \/ DropShutdownFinal
    \/ DropMetadata
    \/ DropBase
    \/ CoordLoadTable
    \/ CoordWriteMetadata
    \/ Return

Spec == Init /\ [][Next]_vars

\* ------------------------------------- lookups from a second query thread
\* the facade holds no lock: startSynchronization writes `tables` (a std::map)
\* and tryGetTable / getTablesIterator read it in whatever thread calls them.
\* One iteration of the loop up to the start of `tables[table_name] = storage`
SyncInsertBegin ==
    /\ alive /\ pc = "sync_loop" /\ inserting = ""
    /\ \E table_name \in tables_to_replicate \ visited :
        LET storage == getStorage(table_name) IN
        /\ handles' = [handles EXCEPT ![table_name][storage.gen] =
                            IF @ = "None" THEN "Pending" ELSE @]
        /\ replication_handler' =
              [replication_handler EXCEPT !.storages[table_name] = storage.gen]
        /\ inserting' = table_name
    /\ UNCHANGED <<variant, reader, base_tables, base_dropped, tables,
                   metadata_exists, pc, tables_to_replicate, visited, loads,
                   drop_trace, drop_had_handler, last, alive>>

\* the write `tables[table_name] = storage` completes
SyncInsertEnd ==
    /\ alive /\ pc = "sync_loop" /\ inserting # ""
    /\ LET g == replication_handler.storages[inserting] IN
        /\ handles' = [handles EXCEPT ![inserting] = AssignHandle(@, tables[inserting], g)]
        /\ tables' = [tables EXCEPT ![inserting] = g]
    /\ visited' = visited \cup {inserting}
    /\ inserting' = ""
    /\ UNCHANGED <<variant, reader, base_tables, base_dropped, replication_handler,
                   metadata_exists, pc, tables_to_replicate, loads, drop_trace,
                   drop_had_handler, last, alive>>

\* what a read of `tables` may yield while another thread is writing it: the
\* two accesses are unordered (a data race), so the lookup may miss the entry,
\* find any handle of that name, or fault (the slot operator[] has just made
\* holds a null pointer that `table->second->as<...>()` dereferences)
RacyLookups(name) ==
    {[outcome |-> "crash", result |-> NullStorage],
     [outcome |-> "ok", result |-> NullStorage]}
    \cup {[outcome |-> "ok", result |-> Handle(name, g)] : g \in 1..loads}

\* tryGetTable called by a second thread, at any moment of the first's call
ConcurrentTryGetTable ==
    /\ alive /\ ~base_dropped /\ reader = NoRead
    /\ \E name \in Names, ctx \in Contexts :
        /\ ctx.origin = "user"
        /\ IF inserting # "" /\ ~(ctx.hasQueryContext /\ "ReplacingMergeTree" \in ctx.storages)
              THEN \E r \in RacyLookups(name) :
                    /\ reader' = [op |-> "tryGetTable", name |-> name,
                                  outcome |-> r.outcome, result |-> r.result,
                                  snapshot |-> {}, raced |-> TRUE]
                    /\ alive' = (r.outcome # "crash")
              ELSE /\ reader' = [op |-> "tryGetTable", name |-> name, outcome |-> "ok",
                                 result |-> tryGetTable(name, ctx), snapshot |-> {},
                                 raced |-> FALSE]
                   /\ UNCHANGED alive
    /\ UNCHANGED <<variant, inserting, base_tables, base_dropped, tables, handles,
                   replication_handler, metadata_exists, pc, tables_to_replicate,
                   visited, loads, drop_trace, drop_had_handler, last>>

\* getTablesIterator called by a second thread: it walks the whole map
ConcurrentGetTablesIterator ==
    /\ alive /\ ~base_dropped /\ reader = NoRead
    /\ IF inserting # ""
          THEN \E outcome \in {"ok", "crash"}, listed \in SUBSET Names :
                /\ reader' = [op |-> "getTablesIterator", name |-> "",
                              outcome |-> outcome, result |-> NullStorage,
                              snapshot |-> IF outcome = "ok" THEN listed ELSE {},
                              raced |-> TRUE]
                /\ alive' = (outcome # "crash")
          ELSE /\ reader' = [op |-> "getTablesIterator", name |-> "", outcome |-> "ok",
                             result |-> NullStorage, snapshot |-> getTablesIterator,
                             raced |-> FALSE]
               /\ UNCHANGED alive
    /\ UNCHANGED <<variant, inserting, base_tables, base_dropped, tables, handles,
                   replication_handler, metadata_exists, pc, tables_to_replicate,
                   visited, loads, drop_trace, drop_had_handler, last>>

\* the second thread's call returns
ReaderReturn ==
    /\ alive /\ reader # NoRead
    /\ reader' = NoRead
    /\ UNCHANGED <<variant, inserting, base_tables, base_dropped, tables, handles,
                   replication_handler, metadata_exists, pc, tables_to_replicate,
                   visited, loads, drop_trace, drop_had_handler, last, alive>>

NextRace ==
    \/ LoadStoredObjects
    \/ SyncConstruct
    \/ SyncFetch
    \/ SyncInsertBegin
    \/ SyncInsertEnd
    \/ SyncStartup
    \/ CoordLoadTable
    \/ Return
    \/ ConcurrentTryGetTable
    \/ ConcurrentGetTablesIterator
    \/ ReaderReturn

SpecRace == Init /\ [][NextRace]_vars

\* the facade under queries that reach it through the interpreter
NextShard ==
    \/ LoadStoredObjects
    \/ SyncConstruct
    \/ SyncFetch
    \/ SyncAddTable
    \/ SyncStartup
    \/ CoordLoadTable
    \/ InterpretSelect
    \/ Return

SpecShard == Init /\ [][NextShard]_vars

TypeOK ==
    /\ inserting \in Names \cup {""}
    /\ reader.op \in {"none", "tryGetTable", "getTablesIterator"}
    /\ variant \in Variants
    /\ base_tables \in [Names -> Engines \cup {NoTable}]
    /\ base_dropped \in BOOLEAN
    /\ tables \in [Names -> 0..MaxLoads]
    /\ handles \in [Names -> [1..MaxLoads -> HandleStates]]
    /\ replication_handler \in [state : CoordStates, storages : [Names -> 0..MaxLoads]]
    /\ metadata_exists \in BOOLEAN
    /\ pc \in {"idle", "sync_construct", "sync_fetch", "sync_loop",
               "drop_shutdown", "drop_final", "drop_metadata", "drop_base"}
    /\ tables_to_replicate \subseteq Names
    /\ visited \subseteq Names
    /\ loads \in 0..MaxLoads
    /\ drop_had_handler \in BOOLEAN
    /\ alive \in BOOLEAN


\* ================================================================== claims
IsPrefix(s, t) == Len(s) <= Len(t) /\ SubSeq(t, 1, Len(s)) = s

CoordinatorSteps(had) == IF had THEN <<"shutdown", "shutdownFinal">> ELSE <<>>

CompleteDropTraces(had) ==
    {CoordinatorSteps(had) \o <<"metadata.exists=true", "metadata.remove", "Base::drop">>,
     CoordinatorSteps(had) \o <<"metadata.exists=false", "Base::drop">>}

\* C1: every drop performs its steps in the order shutdown(), shutdownFinal(),
\* metadata-file existence check (and removal), Base::drop; the two coordinator
\* steps are performed exactly when a replication handler exists, and a drop
\* that returns normally has performed all of them.
C1_DropOrder ==
    /\ \E t \in CompleteDropTraces(drop_had_handler) : IsPrefix(drop_trace, t)
    /\ (last = Returned("drop", "ok") =>
            drop_trace \in CompleteDropTraces(drop_had_handler))
    /\ (base_dropped => drop_trace \in CompleteDropTraces(drop_had_handler))

C1_Witness ==
    /\ last = Returned("drop", "ok")
    /\ drop_trace = <<"shutdown", "shutdownFinal", "metadata.exists=true",
                      "metadata.remove", "Base::drop">>

\* what C2 requires of one step
C2_Step ==
    /\ (pc = "drop_metadata" /\ pc' # pc =>
          IF metadata_exists
             THEN \/ /\ ~metadata_exists'
                     /\ pc' = "drop_base"
                     /\ last'.outcome = "running"
                  \/ /\ metadata_exists'
                     /\ pc' = "idle"
                     /\ last' = Returned("drop", "fault")
                     /\ base_dropped' = base_dropped
             ELSE /\ ~metadata_exists'
                  /\ pc' = "drop_base"
                  /\ last'.outcome = "running"
                  /\ drop_trace' = Append(drop_trace, "metadata.exists=false"))
    /\ (pc = "drop_base" /\ pc' # pc => base_dropped' /\ last' = Returned("drop", "ok"))
    /\ (base_dropped' /\ ~base_dropped => pc = "drop_base")

\* C2: the metadata step of drop removes the file only if it exists; when it
\* is absent nothing is removed, no fault is raised and drop goes on to
\* Base::drop; when it exists and the removal fails, drop returns with the
\* fault and Base::drop is not performed; Base::drop runs only from the
\* position after the metadata step.
C2_MetadataRemoval == [][C2_Step]_vars

C2_Witness ==
    /\ last = Returned("drop", "fault")
    /\ metadata_exists
    /\ ~base_dropped
    /\ drop_trace # <<>>
    /\ drop_trace[Len(drop_trace)] = "metadata.remove"


\* the step is a call of `op` by the facade caller
IsCall(op) == last = NoCall /\ last'.op = op

\* the caller context carries the privileged marker
PrivilegedMarker(ctx) == ctx.hasQueryContext /\ "ReplacingMergeTree" \in ctx.storages

RegistryNames == {n \in Names : tables[n] # 0}

LoadedNames == {n \in RegistryNames : handles[n][tables[n]] = "Loaded"}

\* what C3 requires of one step
C3_Step ==
    IsCall("createTable") /\ ~PrivilegedMarker(last'.ctx) =>
        /\ tables' = tables
        /\ base_tables' = base_tables
        /\ last'.outcome = "ok"

\* C3: a createTable call whose context has no query context, or a query
\* context without the privileged marker, changes neither the registry nor the
\* underlying catalog and returns normally.
C3_UnprivilegedCreateIsNoop == [][C3_Step]_vars

\* what C4 requires of one step
C4_Step ==
    IsCall("createTable") /\ PrivilegedMarker(last'.ctx)
        /\ last'.kind # "ReplacingMergeTree" =>
            /\ base_tables' = base_tables
            /\ tables' = tables

\* C4: a createTable call that carries the privileged marker but creates a
\* storage that is not of the replica-target kind is not delegated to the
\* underlying catalog and changes no state.
C4_DelegationNeedsReplicaTargetKind == [][C4_Step]_vars

\* what C5 requires of one step
C5_Step ==
    IsCall("createTable") /\ last'.ctx.origin # "coordinator" =>
        /\ base_tables' = base_tables
        /\ tables' = tables

\* C5: a createTable call that does not originate from the replication
\* handler changes neither the registry nor the underlying catalog, whatever
\* its query context contains.
C5_SingleWriter == [][C5_Step]_vars

\* what C6 requires of one step
C6_Step ==
    IsCall("createTable") /\ PrivilegedMarker(last'.ctx)
        /\ last'.kind = "ReplacingMergeTree" =>
            /\ base_tables' = BaseCreateTable(last'.name, last'.kind).base
            /\ last'.outcome = BaseCreateTable(last'.name, last'.kind).outcome
            /\ UNCHANGED <<tables, handles, replication_handler, metadata_exists,
                           base_dropped, pc, alive>>

\* C6: a createTable call with the privileged marker and the replica-target
\* kind leaves the underlying catalog as Base::createTable with the same
\* arguments leaves it, returns with the outcome of Base::createTable (its
\* fault included) and changes nothing else.
C6_CreateDelegation == [][C6_Step]_vars

C6_Witness ==
    /\ last.op = "createTable"
    /\ PrivilegedMarker(last.ctx)
    /\ last.kind = "ReplacingMergeTree"
    /\ last.outcome = "fault"
    /\ base_tables[last.name] # NoTable

\* what C7 requires of one step
C7_Step ==
    IsCall("tryGetTable") /\ ~PrivilegedMarker(last'.ctx) =>
        /\ last'.outcome = "ok"
        /\ last'.result =
              IF last'.name \in LoadedNames
                 THEN [type |-> "StoragePostgreSQLReplica", database |-> database_name,
                       table |-> last'.name, gen |-> tables[last'.name]]
                 ELSE NullStorage

\* C7: for a caller without the privileged marker, tryGetTable(name) returns
\* the registry's handle for name if name is registered and its handle is
\* Loaded at the call, and returns the null storage otherwise; it raises no
\* fault.
C7_UnprivilegedLookup == [][C7_Step]_vars

C7_Witness ==
    /\ last.op = "tryGetTable"
    /\ ~PrivilegedMarker(last.ctx)
    /\ last.result = NullStorage
    /\ last.name \in RegistryNames \ LoadedNames

\* what C8 requires of one step
C8_Step ==
    IsCall("tryGetTable") /\ PrivilegedMarker(last'.ctx) =>
        /\ last'.outcome = "ok"
        /\ last'.result = BaseTryGetTable(last'.name)

\* C8: for a caller carrying the privileged marker, tryGetTable(name) returns
\* what Base::tryGetTable(name) returns, whatever the registry holds for name.
C8_PrivilegedLookup == [][C8_Step]_vars

C8_Witness ==
    /\ last.op = "tryGetTable"
    /\ PrivilegedMarker(last.ctx)
    /\ last.result # NullStorage
    /\ last.result.type = "ReplacingMergeTree"
    /\ last.name \in RegistryNames \ LoadedNames

\* what C9 requires of one step
C9_Step ==
    IsCall("getTablesIterator") =>
        /\ \A n \in Names : n \in last'.snapshot <=> n \in LoadedNames
        /\ (LoadedNames = {} => last'.snapshot = {})

\* C9: the snapshot of getTablesIterator holds the name n exactly when n is
\* registered and its handle is Loaded when the snapshot is taken; it holds no
\* Pending handle and is empty while every handle is Pending.
C9_IteratorListsLoaded == [][C9_Step]_vars

C9_Witness ==
    /\ last.op = "getTablesIterator"
    /\ last.snapshot # {}
    /\ RegistryNames \ last.snapshot # {}
    /\ \A n \in RegistryNames \ last.snapshot : handles[n][tables[n]] = "Pending"

\* what C10 requires of one step
C10_Step ==
    pc = "sync_loop" /\ pc' = "idle" /\ last'.outcome = "ok" =>
        {n \in Names : tables'[n] # 0} = tables_to_replicate

\* C10: when startSynchronization completes, the names of the registry are
\* exactly the names its fetchRequiredTables returned.
C10_RegistryIsRequiredSet == [][C10_Step]_vars


\* what C11 requires of one step
C11_Step ==
    IsCall("shutdown") =>
        /\ last'.outcome = "ok"
        /\ UNCHANGED <<base_tables, base_dropped, tables, handles, metadata_exists,
                       pc, drop_trace, alive>>
        /\ replication_handler'.storages = replication_handler.storages
        /\ (replication_handler.state = "None" => replication_handler'.state = "None")
        /\ (replication_handler.state # "None" =>
                replication_handler'.state \in {"Stopping", "Stopped"})
        /\ (replication_handler'.state = "Stopped" =>
                replication_handler.state = "Stopped")
        /\ (replication_handler.state \in {"Stopping", "Stopped"} =>
                replication_handler' = replication_handler)

\* C11: shutdown() changes nothing but the replication handler's stop request:
\* registry, handles, underlying catalog and metadata file are left alone, a
\* null handler stays null, an existing handler is asked to stop and is never
\* joined (it does not become Stopped), and a shutdown() called when the stop
\* has already been requested (a second shutdown(), or the one drop issues)
\* leaves the state as the first left it.
C11_ShutdownIdempotent == [][C11_Step]_vars

C11_Witness ==
    /\ last.op = "shutdown"
    /\ replication_handler.state = "Stopping"
    /\ metadata_exists
    /\ RegistryNames # {}


SyncPcs == {"sync_construct", "sync_fetch", "sync_loop"}

\* what C12 requires of one step
C12_Step ==
    /\ IsCall("loadStoredObjects") =>
          /\ UNCHANGED <<replication_handler, tables, handles>>
          /\ last'.outcome \in {"running", "fault"}
          /\ (last'.outcome = "fault" =>
                 pc' = "idle" /\ base_tables' = base_tables)
          /\ (last'.outcome = "running" => pc' = "sync_construct")
    /\ (pc' # pc /\ pc' = "sync_construct") => IsCall("loadStoredObjects")
    /\ (pc' # pc /\ pc' = "sync_fetch") =>
          pc = "sync_construct" /\ last = Running("loadStoredObjects")
    /\ (pc' # pc /\ pc' = "sync_loop") =>
          pc = "sync_fetch" /\ last = Running("loadStoredObjects")
    /\ (replication_handler' # replication_handler /\ pc \notin SyncPcs) =>
          replication_handler'.state \notin {"NotStarted", "Running"}
    /\ (replication_handler'.state = "Running" /\ replication_handler.state # "Running") =>
          /\ pc = "sync_loop" /\ visited = tables_to_replicate
          /\ last = Running("loadStoredObjects")
          /\ last' = Returned("loadStoredObjects", "ok")
    /\ (pc \in SyncPcs /\ pc' = "idle") =>
          /\ last'.op = "loadStoredObjects"
          /\ last'.outcome \in {"ok", "fault"}
          /\ (last'.outcome = "ok" =>
                 /\ pc = "sync_loop"
                 /\ replication_handler.state = "NotStarted"
                 /\ replication_handler'.state = "Running")
          /\ (last'.outcome = "fault" => replication_handler' = replication_handler)

\* C12: loadStoredObjects() runs the underlying catalog's load first and
\* startSynchronization() after it: the step that loads the catalog touches no
\* replication handler, and when it fails the call ends there with a fault and
\* no handler is constructed; the handler is constructed, asked for the
\* required tables and started in that order, each step only while the call is
\* still running; a step that fails ends the call with a fault and leaves the
\* handler as it was, and the call reports success only by the step that
\* starts the handler.
C12_LoadThenSynchronize == [][C12_Step]_vars

C12_Witness ==
    /\ last = Returned("loadStoredObjects", "fault")
    /\ replication_handler.state = "NotStarted"
    /\ loads = 1
    /\ RegistryNames # {}


\* what C13 requires of one state
C13_State ==
    /\ (alive /\ pc = "sync_loop" /\ visited = tables_to_replicate) =>
          ENABLED SyncStartup
    /\ Callable =>
          /\ ENABLED GetTablesIterator
          /\ \A name \in Names, ctx \in Contexts :
                CallerExists(ctx) =>
                    ENABLED (TryGetTable /\ last'.name = name /\ last'.ctx = ctx)

\* what C13 requires of one step
C13_Step ==
    /\ (pc = "sync_loop" /\ pc' = "idle") =>
          /\ handles' = handles
          /\ \A n \in Names :
                tables'[n] = loads => handles'[n][loads] = "Pending"
    /\ (IsCall("tryGetTable") \/ IsCall("getTablesIterator")) =>
          /\ last'.outcome = "ok"
          /\ UNCHANGED <<tables, handles, replication_handler, pc>>

\* C13: neither the load nor the queries wait for a table to finish loading:
\* once every required table is registered the last step of
\* loadStoredObjects() can be taken whatever the handles' load states are, it
\* changes no handle, and the handles this load created are still Pending when
\* it returns; tryGetTable() for any name and context, and getTablesIterator(),
\* can be taken whenever the caller may call, complete in that step and change
\* nothing.
C13_NonBlocking == [](C13_State) /\ [][C13_Step]_vars

C13_Witness ==
    /\ last = Returned("loadStoredObjects", "ok")
    /\ replication_handler.state = "Running"
    /\ RegistryNames = Names
    /\ \A n \in Names : handles[n][tables[n]] = "Pending"
    /\ getTablesIterator = {}
    /\ \A n \in Names : tryGetTable(n, global_context) = NullStorage


ShardScalarNames == {"_shard_num", "_shard_count"}

ShardScalars ==
    ({"_shard_num"} \X ShardNums) \cup ({"_shard_count"} \X ShardCounts)

\* the scalars of name k a context carries
ScalarsOf(c, k) == {p \in c.scalars : p[1] = k}

\* what the injection of one optional member leaves in the context
Injected(c, incoming, k, option) ==
    IF option # {}
        THEN ScalarsOf(c, k) = {<<k, v>> : v \in option}
        ELSE ScalarsOf(c, k) = ScalarsOf(incoming, k)

\* what C14 requires of one step
C14_Step ==
    IsCall("select") =>
        LET c == last'.ctx
            incoming == last'.incoming
            options == last'.options
        IN  /\ last'.outcome = "ok"
            /\ last'.result = tryGetTable(last'.name, [c EXCEPT !.scalars = {}])
            /\ \A s \in SUBSET ShardScalars :
                  tryGetTable(last'.name, [c EXCEPT !.scalars = s]) = last'.result
            /\ last'.snapshot = getTablesIterator
            /\ Injected(c, incoming, "_shard_num", options.shard_num)
            /\ Injected(c, incoming, "_shard_count", options.shard_count)
            /\ {p \in c.scalars : p[1] \notin ShardScalarNames} =
                  {p \in incoming.scalars : p[1] \notin ShardScalarNames}
            /\ [c EXCEPT !.scalars = {}] = [incoming EXCEPT !.scalars = {}]

\* C14: a lookup made under the interpreter's context completes and returns
\* what the same lookup returns under that context with no special scalar, and
\* under it with any other set of shard scalars; the enumeration is the one the
\* facade gives without them. The interpreter leaves `_shard_num` in its context
\* with the option's value exactly when the shard-number option is set (0
\* included) and otherwise as it received it, the same for `_shard_count`, and
\* changes no other scalar and no other part of the context.
C14_ShardConstantsOrthogonal == [][C14_Step]_vars

C14_Witness ==
    /\ last.op = "select"
    /\ last.options.shard_num = {0}
    /\ last.options.shard_count = {}
    /\ last.incoming.scalars = {<<"_query_id", 1>>}
    /\ last.ctx.scalars = {<<"_shard_num", 0>>, <<"_query_id", 1>>}
    /\ last.result.type = "StoragePostgreSQLReplica"
    /\ last.snapshot # {}


\* what C15 requires of one state
C15_State ==
    /\ pc \in {"drop_metadata", "drop_base"} => ~CoordBackgroundActive
    /\ pc = "drop_base" => ~metadata_exists
    /\ base_dropped => ~metadata_exists /\ ~CoordBackgroundActive

\* what C15 requires of one step
C15_Step ==
    /\ (handles' # handles /\ pc \notin SyncPcs) => CoordBackgroundActive
    /\ (~metadata_exists /\ metadata_exists') =>
          CoordBackgroundActive /\ pc \notin {"drop_metadata", "drop_base"}

\* C15: once drop() has passed shutdownFinal() the replication handler has no
\* background work left: from there to the end of drop(), and ever after a
\* drop() that completed, it is not active, no handle changes state and the
\* metadata file is not written; the file is absent when the underlying catalog
\* is dropped and stays absent.
C15_NoBackgroundAfterFinal == [](C15_State) /\ [][C15_Step]_vars

C15_Witness ==
    /\ base_dropped
    /\ drop_had_handler
    /\ replication_handler.state = "Stopped"
    /\ \E i \in DOMAIN drop_trace : drop_trace[i] = "metadata.remove"
    /\ \E n \in Names : tables[n] # 0 /\ handles[n][tables[n]] = "Pending"
    /\ ~metadata_exists


\* what C16 requires of one step
C16_Step ==
    /\ \A n \in Names :
          replication_handler'.storages[n] \notin {0, replication_handler.storages[n]} =>
              /\ pc = "sync_loop" /\ pc' = "sync_loop"
              /\ replication_handler.state = "NotStarted"
              /\ replication_handler.storages[n] = 0
              /\ n \in tables_to_replicate \ visited
              /\ visited' = visited \cup {n}
              /\ tables'[n] = replication_handler'.storages[n]
    /\ (pc = "sync_loop" /\ pc' = "sync_loop" /\ visited' # visited) =>
          \E n \in tables_to_replicate \ visited :
              /\ visited' = visited \cup {n}
              /\ replication_handler'.storages[n] # 0
              /\ replication_handler'.storages[n] = tables'[n]
              /\ handles'[n][tables'[n]] # "None"
    /\ (replication_handler.state = "NotStarted" /\ replication_handler'.state = "Running") =>
          /\ replication_handler'.storages = replication_handler.storages
          /\ \A n \in Names :
                IF n \in tables_to_replicate
                    THEN /\ replication_handler.storages[n] # 0
                         /\ replication_handler.storages[n] = tables[n]
                    ELSE replication_handler.storages[n] = 0

\* C16: the replication handler is given a handle only by an iteration of the
\* loop over the required names, for a name not yet visited and not yet
\* registered with it, before it is started, and the handle it is given is the
\* one the registry holds for that name after the iteration; every iteration
\* does so; when startup() is called every required name is registered with
\* the handle the registry holds and no other name is registered.
C16_AddStorageBeforeStartup == [][C16_Step]_vars

C16_Witness ==
    /\ last = Returned("loadStoredObjects", "ok")
    /\ replication_handler.state = "Running"
    /\ \A n \in Names :
          replication_handler.storages[n] # 0 /\ replication_handler.storages[n] = tables[n]
    /\ loads = 2


\* what C17 requires of one step
C17_Step ==
    (reader' # reader /\ reader'.op # "none") =>
        /\ inserting = ""
        /\ ~reader'.raced
        /\ reader'.outcome = "ok"
        /\ (reader'.op = "tryGetTable" /\ reader'.result.type = "StoragePostgreSQLReplica") =>
              /\ tables[reader'.name] = reader'.result.gen
              /\ handles[reader'.name][reader'.result.gen] = "Loaded"
        /\ (reader'.op = "getTablesIterator") => reader'.snapshot = LoadedNames

\* C17: a lookup by a second thread never reads the registry while
\* startSynchronization is writing an entry of it, completes, and reports for
\* each name what the registry holds: absent, or its handle when that is
\* Loaded (a Pending handle is reported as absent); never a handle the registry
\* does not hold, and never a listing other than the loaded names.
C17_RegistrySynchronized == [][C17_Step]_vars


\* what C18 requires of one step
C18_Step ==
    /\ \A n \in Names :
          (tables[n] # 0 /\ tables'[n] = 0) => IsCall("dropTable") /\ last'.name = n
    /\ IsCall("dropTable") =>
          /\ replication_handler' = replication_handler
          /\ UNCHANGED <<handles, metadata_exists, pc>>
          /\ \A n \in Names :
                IF last'.name = n /\ last'.outcome = "ok"
                    THEN /\ base_tables'[n] = NoTable
                         /\ tables'[n] = 0
                         /\ (tryGetTable(n, global_context))' = NullStorage
                         /\ n \notin getTablesIterator'
                    ELSE tables'[n] = tables[n]

\* C18: a name leaves the registry only by dropTable() of that name; a
\* dropTable(name) that completes leaves the underlying catalog and the
\* registry without the name, so that the non-privileged tryGetTable(name)
\* returns absent and getTablesIterator() does not list it; it keeps every
\* other entry, and changes neither the replication handler nor any handle.
C18_DropTableRemovesEntry == [][C18_Step]_vars


\* a context that takes the privileged path of tryGetTable
MarkedContext ==
    [hasQueryContext |-> TRUE, storages |-> {"ReplacingMergeTree"},
     origin |-> "coordinator", scalars |-> {}]

\* what C19 requires of one step
C19_Step ==
    \A n \in Names :
        (pc = "sync_loop" /\ n \in visited' \ visited) =>
            LET existing == tryGetTable(n, MarkedContext) IN
            /\ existing # NullStorage =>
                  /\ handles' = handles
                  /\ replication_handler'.storages[n] = existing.gen
                  /\ tables'[n] = existing.gen
            /\ (\E g \in 1..MaxLoads :
                    handles[n][g] = "None" /\ handles'[n][g] = "Pending") =>
                  existing = NullStorage

\* C19: the iteration of startSynchronization for a name looks the name up on
\* the privileged path (in the underlying catalog): when that finds a table,
\* that object is the one given to the replication handler and put in the
\* registry and no handle is created; a new Pending handle is created only
\* when that lookup finds nothing.
C19_GetStorageUsesPrivilegedLookup == [][C19_Step]_vars


\* C20: under either variant every handle the registry holds carries the
\* catalog name the facade was constructed with and its table name, and a
\* createTable() without the privileged marker has returned without fault.
C20_VariantsInterchangeable ==
    /\ \A n \in RegistryNames :
          /\ Handle(n, tables[n]).database = CatalogName
          /\ Handle(n, tables[n]).table = n
    /\ (last.op = "createTable" /\ ~PrivilegedMarker(last.ctx)) => last.outcome = "ok"

====
